---- MODULE Spec2Model ----
(***************************************************************************)
(* Prestate tracer of the multivm crate                                    *)
(* (core/lib/multivm/src/tracers/prestate_tracer/mod.rs).                  *)
(*                                                                         *)
(* Three specifications share this module:                                 *)
(*   Spec        the storage handle (Rc<RefCell<S>>), the execution engine *)
(*               writing to it and process_modified_storage_keys reading   *)
(*               it back, one modified key per step;                       *)
(*   SpecResult  the tracer's shared write-once result holder;             *)
(*   SpecRender  Account's Display implementation, one writeln! per step.  *)
(***************************************************************************)
EXTENDS Integers, Sequences, FiniteSets, TLC

VARIABLES
    modified,   \* S::modified_storage_keys(): StorageKey -> StorageValue
    base,       \* what read_value finds for a key that is not in modified
    borrow,     \* RefCell borrow state of the storage handle
    strong,     \* Rc strong count of the storage handle
    writes,     \* number of set_value calls the engine has made
    pc,         \* position of the harness around process_modified_storage_keys
    prestate,   \* argument `prestate` of the running / last call
    keys,       \* the collected Vec of modified keys not yet consumed
    acc,        \* the State being collected
    built,      \* Account values constructed by the running / last call
    ret,        \* value returned by the last call
    calls,      \* number of calls of process_modified_storage_keys begun
    tracers,    \* the PrestateTracer values sharing one result holder
    result,     \* the OnceCell<(State, State)> behind the shared Arc
    set_log,    \* history: every attempt to populate the holder, with its outcome
    observed,   \* history: what each reader got from the holder, and when
    r_account,  \* the Account being rendered
    r_pc,       \* position inside Account::fmt
    r_left,     \* storage entries the iteration has not yet visited
    r_out       \* the lines written to the formatter so far

mainVars == <<modified, base, borrow, strong, writes, pc, prestate, keys, acc, built, ret, calls>>

resultVars == <<tracers, result, set_log, observed>>

renderVars == <<r_account, r_pc, r_left, r_out>>

vars == <<mainVars, resultVars, renderVars>>

----------------------------------------------------------------------------
\* Bounds of the model.

\* bytes of a modelled H256 (32 in the program)
HLen == 4
\* set_value calls of the engine over one behaviour
MaxWrites == 2
\* calls of process_modified_storage_keys over one behaviour
MaxCalls == 2

----------------------------------------------------------------------------
\* Option<T>: None is the empty sequence, Some(x) the one-element sequence.

None == <<>>

Some(x) == <<x>>

IsSome(o) == o # None

Unwrap(o) == o[1]

\* HashMap<K, V>: a function whose domain is the set of keys.
EmptyMap == <<>>

contains_key(m, k) == k \in DOMAIN m

\* HashMap::insert: a later insert for the same key replaces the earlier value.
insert(m, k, v) == [x \in (DOMAIN m) \cup {k} |-> IF x = k THEN v ELSE m[x]]

\* Iterator<Item = (K, V)>::collect::<HashMap<K, V>>() over a set of pairs.
collect(pairs) == [x \in {p[1] : p \in pairs} |-> CHOOSE v \in {p[2] : p \in pairs} : <<x, v>> \in pairs]

----------------------------------------------------------------------------
\* Addresses, 256-bit words and storage keys.

L2_ETH_TOKEN_ADDRESS == 32778

Users == {1, 2}

Address == Users \cup {L2_ETH_TOKEN_ADDRESS}

RECURSIVE ToBytes(_, _)
\* big-endian bytes of n, len bytes wide
ToBytes(n, len) == IF len = 0 THEN <<>> ELSE Append(ToBytes(n \div 256, len - 1), n % 256)

RECURSIVE FromBytes(_)
\* numeric value of big-endian bytes
FromBytes(b) == IF b = <<>> THEN 0 ELSE 256 * FromBytes(SubSeq(b, 1, Len(b) - 1)) + b[Len(b)]

RECURSIVE ByteSum(_)
ByteSum(b) == IF b = <<>> THEN 0 ELSE b[1] + ByteSum(Tail(b))

H256Of(n) == ToBytes(n, HLen)

\* zksync_utils::h256_to_u256: the big-endian value of the word
h256_to_u256(h) == FromBytes(h)

\* zksync_utils::address_to_h256: the address left-padded with zero bytes
address_to_h256(a) == ToBytes(a, HLen)

ZeroBytes == [i \in 1..HLen |-> 0]

\* keccak256 of a two-word input, idealised: a word tagged 0xff that is
\* injective on the inputs of the model and depends on both words.
keccak256(bytes) ==
    <<255>> \o SubSeq(bytes, 2, HLen - 1)
        \o <<(bytes[HLen] + 16 * ByteSum(SubSeq(bytes, HLen + 1, Len(bytes)))) % 256>>

\* StorageKey::new(AccountTreeId::new(address), key)
StorageKey(a, k) == [account |-> a, key |-> k]

\* get_code_key: a key derived from the address, in the address's own namespace
get_code_key(a) == StorageKey(a, address_to_h256(a))

\* get_nonce_key: a key derived from the address, distinct from the code key
get_nonce_key(a) == StorageKey(a, keccak256(address_to_h256(a) \o H256Of(1)))

get_balance_key(account) ==
    LET address_h256 == address_to_h256(account)
        bytes == address_h256 \o ZeroBytes
        balance_key == keccak256(bytes)
    IN StorageKey(L2_ETH_TOKEN_ADDRESS, balance_key)

PlainSlots == {H256Of(0)}

\* the keys the engine may write and the extractor may read
StorageKeys ==
    {StorageKey(a, s) : a \in Address, s \in PlainSlots}
        \cup {get_code_key(a) : a \in Address}
        \cup {get_nonce_key(a) : a \in Address}
        \cup {get_balance_key(a) : a \in Address}

Values == {H256Of(1), H256Of(2)}

\* a committed store in which every key holds a different non-zero word
DistinctBase == [k \in StorageKeys |-> H256Of(1000 * (k.account % 100) + ByteSum(k.key) + 3)]

\* a store nothing was ever written to: every key reads as the zero word
ZeroBase == [k \in StorageKeys |-> H256Of(0)]

----------------------------------------------------------------------------
\* The storage abstraction (WriteStorage).

\* read_value: the value written in this execution, else the committed value
read_value(m, b, k) == IF k \in DOMAIN m THEN m[k] ELSE b[k]

\* set_value
set_value(m, k, v) == insert(m, k, v)

----------------------------------------------------------------------------
\* Account and the extractor.

Account(balance, code, nonce, storage) ==
    [balance |-> balance, code |-> code, nonce |-> nonce, storage |-> storage]

\* get_storage_if_present without its filter on the owning account
GetStorageUnfiltered(account, modified_storage_keys) ==
    collect({<<k.key, modified_storage_keys[k]>> : k \in DOMAIN modified_storage_keys})

\* get_storage_if_present with the comparison of the filter inverted
GetStorageOfOthers(account, modified_storage_keys) ==
    collect({<<k.key, modified_storage_keys[k]>> :
                k \in {kk \in DOMAIN modified_storage_keys : kk.account # account}})

get_storage_if_present(account, modified_storage_keys) ==
    collect({<<k.key, modified_storage_keys[k]>> :
                k \in {kk \in DOMAIN modified_storage_keys : kk.account = account}})

\* the closure with the code and nonce keys exchanged
BuildAccountSwapped(m, b, k) ==
    Account(Some(h256_to_u256(read_value(m, b, get_balance_key(k.account)))),
            Some(h256_to_u256(read_value(m, b, get_nonce_key(k.account)))),
            Some(h256_to_u256(read_value(m, b, get_code_key(k.account)))),
            Some(get_storage_if_present(k.account, m)))

\* the Account the closure of .map() builds for the modified key k
BuildAccount(m, b, k) ==
    Account(Some(h256_to_u256(read_value(m, b, get_balance_key(k.account)))),
            Some(h256_to_u256(read_value(m, b, get_code_key(k.account)))),
            Some(h256_to_u256(read_value(m, b, get_nonce_key(k.account)))),
            Some(get_storage_if_present(k.account, m)))

\* the pipeline without its filter on prestate
KeepEveryKey(pre, k) == TRUE

\* the filter with the ledger account left out of the result
KeepKeyButLedger(pre, k) == ~contains_key(pre, k.account) /\ k.account # L2_ETH_TOKEN_ADDRESS

\* .filter(|k| !prestate.contains_key(k.account().address()))
KeepKey(pre, k) == ~contains_key(pre, k.account)

\* the prestates a caller may pass: any set of addresses, each with an Account
Prestates == {[a \in P |-> Account(None, None, None, None)] : P \in SUBSET Address}

----------------------------------------------------------------------------
InitMain ==
    /\ modified = EmptyMap
    /\ base \in {ZeroBase, DistinctBase}
    /\ borrow = "unused"
    /\ strong = 1
    /\ writes = 0
    /\ pc = "exec"
    /\ prestate = EmptyMap
    /\ keys = {}
    /\ acc = EmptyMap
    /\ built = 0
    /\ ret = EmptyMap
    /\ calls = 0

\* The engine takes the storage handle: storage.borrow_mut().
EngineBorrow ==
    /\ pc \in {"exec", "done"}
    /\ borrow = "unused"
    /\ writes < MaxWrites
    /\ borrow' = "engine"
    /\ pc' = "exec"
    /\ prestate' = EmptyMap
    /\ acc' = EmptyMap
    /\ built' = 0
    /\ ret' = EmptyMap
    /\ UNCHANGED <<modified, base, strong, writes, keys, calls, resultVars, renderVars>>

\* The engine writes one key through its borrow.
EngineWrite(k, v) ==
    /\ borrow = "engine"
    /\ writes < MaxWrites
    /\ modified' = set_value(modified, k, v)
    /\ writes' = writes + 1
    /\ UNCHANGED <<base, borrow, strong, pc, prestate, keys, acc, built, ret, calls, resultVars, renderVars>>

\* The engine's RefMut is dropped.
EngineRelease ==
    /\ borrow = "engine"
    /\ borrow' = "unused"
    /\ UNCHANGED <<modified, base, strong, writes, pc, prestate, keys, acc, built, ret, calls, resultVars, renderVars>>

\* the call with the collected map seeded from prestate
StartFromPrestate(P) ==
    /\ pc \in {"exec", "done"}
    /\ calls < MaxCalls
    /\ borrow = "unused"
    /\ borrow' = "extractor"
    /\ strong' = strong + 1
    /\ prestate' = P
    /\ keys' = DOMAIN modified
    /\ acc' = P
    /\ built' = 0
    /\ ret' = EmptyMap
    /\ calls' = calls + 1
    /\ pc' = "iter"
    /\ UNCHANGED <<modified, base, writes, resultVars, renderVars>>

\* process_modified_storage_keys is entered: the handle is cloned and
\* mutably borrowed, the modified keys are cloned into a Vec.
Start(P) ==
    /\ pc \in {"exec", "done"}
    /\ calls < MaxCalls
    /\ borrow = "unused"
    /\ borrow' = "extractor"
    /\ strong' = strong + 1
    /\ prestate' = P
    /\ keys' = DOMAIN modified
    /\ acc' = EmptyMap
    /\ built' = 0
    /\ ret' = EmptyMap
    /\ calls' = calls + 1
    /\ pc' = "iter"
    /\ UNCHANGED <<modified, base, writes, resultVars, renderVars>>

\* borrow_mut() on a handle that is already borrowed panics (BorrowMutError);
\* the clone is dropped while unwinding.
StartPanic(P) ==
    /\ pc \in {"exec", "done"}
    /\ calls < MaxCalls
    /\ borrow # "unused"
    /\ prestate' = P
    /\ calls' = calls + 1
    /\ pc' = "panicked"
    /\ UNCHANGED <<modified, base, borrow, strong, writes, keys, acc, built, ret, resultVars, renderVars>>

\* the step writing the balance it read back through set_value
StepWritingBack(k) ==
    /\ pc = "iter"
    /\ k \in keys
    /\ keys' = keys \ {k}
    /\ IF KeepKey(prestate, k)
          THEN /\ acc' = insert(acc, k.account, BuildAccount(modified, base, k))
               /\ built' = built + 1
               /\ modified' = set_value(modified, get_balance_key(k.account),
                                        read_value(modified, base, get_balance_key(k.account)))
          ELSE UNCHANGED <<acc, built, modified>>
    /\ UNCHANGED <<base, borrow, strong, writes, pc, prestate, ret, calls, resultVars, renderVars>>

\* One element of the Vec goes through filter, map and the collecting insert.
\* The Vec holds the keys in the HashMap's iteration order, which is any order.
Step(k) ==
    /\ pc = "iter"
    /\ k \in keys
    /\ keys' = keys \ {k}
    /\ IF KeepKey(prestate, k)
          THEN /\ acc' = insert(acc, k.account, BuildAccount(modified, base, k))
               /\ built' = built + 1
          ELSE UNCHANGED <<acc, built>>
    /\ UNCHANGED <<modified, base, borrow, strong, writes, pc, prestate, ret, calls, resultVars, renderVars>>

\* the return with the RefMut leaked (never dropped)
ReturnKeepingBorrow ==
    /\ pc = "iter"
    /\ keys = {}
    /\ ret' = acc
    /\ strong' = strong - 1
    /\ pc' = "done"
    /\ UNCHANGED <<modified, base, borrow, writes, prestate, keys, acc, built, calls, resultVars, renderVars>>

\* The iterator is exhausted: the map is returned, the RefMut and the cloned
\* handle are dropped.
Return ==
    /\ pc = "iter"
    /\ keys = {}
    /\ ret' = acc
    /\ borrow' = "unused"
    /\ strong' = strong - 1
    /\ pc' = "done"
    /\ UNCHANGED <<modified, base, writes, prestate, keys, acc, built, calls, resultVars, renderVars>>

----------------------------------------------------------------------------
\* The tracer and its shared write-once result holder.

\* attempts to populate the holder over one behaviour
MaxSets == 2
\* reads of the holder by each reader over one behaviour
MaxReads == 1

\* the one shared allocation behind Arc<OnceCell<(State, State)>>
Holder == "holder"

\* the tracer and its clone (#[derive(Clone)] copies the Arc, not the cell)
Tracers == {1, 2}

Readers == {1, 2}

\* PrestateTracer::new
new(diff_mode, result_slot) ==
    [pre |-> EmptyMap, post |-> EmptyMap, config |-> [diff_mode |-> diff_mode], result |-> result_slot]

\* a cell whose set replaces the value it holds
OnceCellSetOverwriting(cell, value) == [cell |-> Some(value), res |-> "Ok"]

\* OnceCell::set: Ok(()) and the value stored if the cell was empty, else
\* Err(value) and the cell left as it was
once_cell_set(cell, value) ==
    IF cell = None THEN [cell |-> Some(value), res |-> "Ok"] ELSE [cell |-> cell, res |-> "Err"]

\* OnceCell::get: None while the cell is empty, never a default value
once_cell_get(cell) == cell

\* the states a harness may hold as pre / post snapshot
SampleStates ==
    {EmptyMap, [a \in {1} |-> Account(Some(1), Some(0), Some(0), Some(EmptyMap))]}

InitResult ==
    /\ \E d \in BOOLEAN : tracers = [t \in Tracers |-> new(d, Holder)]
    /\ result = None
    /\ set_log = <<>>
    /\ observed = [r \in Readers |-> <<>>]

\* The harness records the snapshot taken before execution.
CapturePre(t, s) ==
    /\ tracers[t].pre # s
    /\ tracers' = [tracers EXCEPT ![t].pre = s]
    /\ UNCHANGED <<result, set_log, observed, mainVars, renderVars>>

\* The harness records the extractor's result.
ComputePost(t, s) ==
    /\ tracers[t].post # s
    /\ tracers' = [tracers EXCEPT ![t].post = s]
    /\ UNCHANGED <<result, set_log, observed, mainVars, renderVars>>

\* The harness commits (pre, post): self.result.set((pre.clone(), post.clone())).
Finalize(t) ==
    /\ Len(set_log) < MaxSets
    /\ tracers[t].result = Holder
    /\ LET value == <<tracers[t].pre, tracers[t].post>>
           r == once_cell_set(result, value)
       IN /\ result' = r.cell
          /\ set_log' = Append(set_log, [value |-> value, res |-> r.res])
    /\ UNCHANGED <<tracers, observed, mainVars, renderVars>>

\* A consumer reads the holder: result.get().
ReadResult(r) ==
    /\ Len(observed[r]) < MaxReads
    /\ observed' = [observed EXCEPT ![r] = Append(@, [at |-> Len(set_log), val |-> once_cell_get(result)])]
    /\ UNCHANGED <<tracers, result, set_log, mainVars, renderVars>>

NextResult ==
    \/ \E t \in Tracers, s \in SampleStates : CapturePre(t, s)
    \/ \E t \in Tracers, s \in SampleStates : ComputePost(t, s)
    \/ \E t \in Tracers : Finalize(t)
    \/ \E r \in Readers : ReadResult(r)

----------------------------------------------------------------------------
\* impl fmt::Display for Account.  A line of output is a record: the field it
\* belongs to and the texts written for its key and value, one character per
\* element.

HexDigits == <<"0", "1", "2", "3", "4", "5", "6", "7", "8", "9", "a", "b", "c", "d", "e", "f">>

RECURSIVE Digits(_, _)
\* n in the given base, most significant digit first, no leading zero
Digits(n, radix) ==
    IF n < radix THEN <<HexDigits[n + 1]>>
    ELSE Append(Digits(n \div radix, radix), HexDigits[(n % radix) + 1])

\* {:x} of a U256
LowerHex(n) == Digits(n, 16)

\* {} of a U256
Decimal(n) == Digits(n, 10)

\* {:02x} of a byte
HexByte(b) == <<HexDigits[(b \div 16) + 1], HexDigits[(b % 16) + 1]>>

\* {} of an H256: the first two and the last two bytes around an ellipsis
DisplayH256(h) ==
    <<"0", "x">> \o HexByte(h[1]) \o HexByte(h[2]) \o <<"...">>
        \o HexByte(h[Len(h) - 1]) \o HexByte(h[Len(h)])

Line(tag, key, val) == [tag |-> tag, key |-> key, val |-> val]

SampleSlots == {H256Of(1), H256Of(258)}

SampleStorages ==
    {[s \in D |-> H256Of(66)] : D \in SUBSET SampleSlots}

\* the accounts rendered: every combination of present and absent fields
RenderAccounts ==
    {Account(b, c, n, s) :
        b \in {None, Some(0), Some(255)},
        c \in {None, Some(17)},
        n \in {None, Some(10)},
        s \in {None} \cup {Some(m) : m \in SampleStorages}}

InitRender ==
    /\ r_account \in RenderAccounts
    /\ r_pc = "open"
    /\ r_left = {}
    /\ r_out = <<>>

\* writeln!(f, "{{")?
FmtOpen ==
    /\ r_pc = "open"
    /\ r_out' = Append(r_out, Line("{", <<>>, <<>>))
    /\ r_pc' = "balance"
    /\ UNCHANGED <<r_account, r_left, mainVars, resultVars>>

\* if let Some(balance) = self.balance { writeln!(f, "  balance: \"0x{:x}\",", balance)?; }
FmtBalance ==
    /\ r_pc = "balance"
    /\ r_out' = IF IsSome(r_account.balance)
                   THEN Append(r_out, Line("balance", <<>>, <<"0", "x">> \o LowerHex(Unwrap(r_account.balance))))
                   ELSE r_out
    /\ r_pc' = "code"
    /\ UNCHANGED <<r_account, r_left, mainVars, resultVars>>

\* if let Some(code) = &self.code { writeln!(f, "  code: \"{}\",", code)?; }
FmtCode ==
    /\ r_pc = "code"
    /\ r_out' = IF IsSome(r_account.code)
                   THEN Append(r_out, Line("code", <<>>, Decimal(Unwrap(r_account.code))))
                   ELSE r_out
    /\ r_pc' = "nonce"
    /\ UNCHANGED <<r_account, r_left, mainVars, resultVars>>

\* the nonce branch writing a placeholder for an absent nonce
FmtNoncePlaceholder ==
    /\ r_pc = "nonce"
    /\ r_out' = IF IsSome(r_account.nonce)
                   THEN Append(r_out, Line("nonce", <<>>, Decimal(Unwrap(r_account.nonce))))
                   ELSE Append(r_out, Line("nonce", <<>>, <<"n", "u", "l", "l">>))
    /\ r_pc' = "storage"
    /\ UNCHANGED <<r_account, r_left, mainVars, resultVars>>

\* if let Some(nonce) = self.nonce { writeln!(f, "  nonce: {},", nonce)?; }
FmtNonce ==
    /\ r_pc = "nonce"
    /\ r_out' = IF IsSome(r_account.nonce)
                   THEN Append(r_out, Line("nonce", <<>>, Decimal(Unwrap(r_account.nonce))))
                   ELSE r_out
    /\ r_pc' = "storage"
    /\ UNCHANGED <<r_account, r_left, mainVars, resultVars>>

\* if let Some(storage) = &self.storage { writeln!(f, "  storage: {{")?; ... }
FmtStorage ==
    /\ r_pc = "storage"
    /\ IF IsSome(r_account.storage)
          THEN /\ r_out' = Append(r_out, Line("storage", <<>>, <<>>))
               /\ r_left' = DOMAIN Unwrap(r_account.storage)
               /\ r_pc' = "entries"
          ELSE /\ r_pc' = "close"
               /\ UNCHANGED <<r_out, r_left>>
    /\ UNCHANGED <<r_account, mainVars, resultVars>>

\* for (key, value) in storage.iter() { writeln!(f, "    {}: \"{}\",", key, value)?; }
\* The HashMap yields its entries in any order.
FmtEntry(key) ==
    /\ r_pc = "entries"
    /\ key \in r_left
    /\ r_out' = Append(r_out, Line("entry", DisplayH256(key), DisplayH256(Unwrap(r_account.storage)[key])))
    /\ r_left' = r_left \ {key}
    /\ UNCHANGED <<r_account, r_pc, mainVars, resultVars>>

\* writeln!(f, "  }}")? once the iteration is over
FmtStorageEnd ==
    /\ r_pc = "entries"
    /\ r_left = {}
    /\ r_out' = Append(r_out, Line("storage_end", <<>>, <<>>))
    /\ r_pc' = "close"
    /\ UNCHANGED <<r_account, r_left, mainVars, resultVars>>

\* writeln!(f, "}}"): the value of fmt
FmtClose ==
    /\ r_pc = "close"
    /\ r_out' = Append(r_out, Line("}", <<>>, <<>>))
    /\ r_pc' = "done"
    /\ UNCHANGED <<r_account, r_left, mainVars, resultVars>>

\* Any writeln! may fail in the underlying writer; `?` returns the fmt::Error.
FmtError ==
    /\ r_pc \notin {"done", "err"}
    /\ r_pc' = "err"
    /\ UNCHANGED <<r_account, r_left, r_out, mainVars, resultVars>>

NextRender ==
    \/ FmtOpen
    \/ FmtBalance
    \/ FmtCode
    \/ FmtNonce
    \/ FmtStorage
    \/ \E key \in SampleSlots : FmtEntry(key)
    \/ FmtStorageEnd
    \/ FmtClose
    \/ FmtError

----------------------------------------------------------------------------
\* The three specifications.  Each starts the other two parts in their initial
\* position and never moves them.

RestResult ==
    /\ tracers = [t \in Tracers |-> new(FALSE, Holder)]
    /\ result = None
    /\ set_log = <<>>
    /\ observed = [r \in Readers |-> <<>>]

RestRender ==
    /\ r_account = Account(None, None, None, None)
    /\ r_pc = "open"
    /\ r_left = {}
    /\ r_out = <<>>

RestMain ==
    /\ modified = EmptyMap
    /\ base = ZeroBase
    /\ borrow = "unused"
    /\ strong = 1
    /\ writes = 0
    /\ pc = "exec"
    /\ prestate = EmptyMap
    /\ keys = {}
    /\ acc = EmptyMap
    /\ built = 0
    /\ ret = EmptyMap
    /\ calls = 0

Init == InitMain /\ RestResult /\ RestRender

Next ==
    \/ EngineBorrow
    \/ \E k \in StorageKeys, v \in Values : EngineWrite(k, v)
    \/ EngineRelease
    \/ \E P \in Prestates : Start(P)
    \/ \E P \in Prestates : StartPanic(P)
    \/ \E k \in StorageKeys : Step(k)
    \/ Return

Spec == Init /\ [][Next]_vars

InitOfResult == RestMain /\ InitResult /\ RestRender

SpecResult == InitOfResult /\ [][NextResult]_vars

InitOfRender == RestMain /\ RestResult /\ InitRender

SpecRender == InitOfRender /\ [][NextRender]_vars

----------------------------------------------------------------------------
\* Properties of process_modified_storage_keys, of the result holder and of
\* Account's rendering.

\* the accounts that own a modified key
Owners(m) == {k.account : k \in DOMAIN m}

\* the modified keys an account owns
KeysOf(m, a) == {k \in DOMAIN m : k.account = a}

\* a map as its set of (key, value) pairs
Entries(f) == {<<x, f[x]>> : x \in DOMAIN f}

\* the slot of the ledger account that holds the balance of a
LedgerBalanceKey(a) ==
    [account |-> L2_ETH_TOKEN_ADDRESS, key |-> keccak256(ToBytes(a, HLen) \o [i \in 1..HLen |-> 0])]

\* the value a key reads as after the execution, as a number
ReadNumber(k) == FromBytes(IF k \in DOMAIN modified THEN modified[k] ELSE base[k])

\* C1: the addresses of the returned map are exactly the owners of the
\* modified keys that are not in prestate: an address of prestate never
\* appears, an address that owns no modified key never appears.
C1_ResultAddresses ==
    pc = "done" => DOMAIN ret = Owners(modified) \ DOMAIN prestate

C1_Witness ==
    /\ pc = "done"
    /\ ret # EmptyMap
    /\ \E a \in DOMAIN prestate : a \in Owners(modified)
    /\ \E b \in Address : b \notin Owners(modified) /\ b \notin DOMAIN prestate

\* C2: every owner of a modified key that is not in prestate has one entry,
\* whose balance, code and nonce are populated with what its three derived keys
\* read as after the execution, also when none of the three was written.
C2_NewAddressFields ==
    pc = "done" =>
        /\ Cardinality(DOMAIN ret) = Cardinality(Owners(modified) \ DOMAIN prestate)
        /\ \A a \in Owners(modified) \ DOMAIN prestate :
              /\ a \in DOMAIN ret
              /\ ret[a].balance = Some(ReadNumber(LedgerBalanceKey(a)))
              /\ ret[a].code = Some(ReadNumber(get_code_key(a)))
              /\ ret[a].nonce = Some(ReadNumber(get_nonce_key(a)))

C2_Witness ==
    /\ pc = "done"
    /\ base = ZeroBase
    /\ \E a \in DOMAIN ret :
          /\ Cardinality(KeysOf(modified, a)) >= 2
          /\ {LedgerBalanceKey(a), get_code_key(a), get_nonce_key(a)} \cap DOMAIN modified = {}
          /\ ret[a].balance = Some(0) /\ ret[a].code = Some(0) /\ ret[a].nonce = Some(0)

\* C3: the storage of a returned account is exactly the (slot, final value)
\* pairs of the modified keys the account owns.
C3_StorageGrouping ==
    pc = "done" =>
        \A a \in DOMAIN ret :
            /\ IsSome(ret[a].storage)
            /\ Entries(Unwrap(ret[a].storage)) = {<<k.key, modified[k]>> : k \in KeysOf(modified, a)}

C3_Witness ==
    /\ pc = "done"
    /\ \E a \in DOMAIN ret : \E b \in Owners(modified) : b # a /\ Unwrap(ret[a].storage) # EmptyMap

\* C5: with no modified key the call returns the empty map, whatever prestate
\* holds, and constructs no Account.
C5_NoOp ==
    (pc = "done" /\ modified = EmptyMap) => (ret = EmptyMap /\ built = 0)

C5_Witness ==
    pc = "done" /\ modified = EmptyMap /\ prestate # EmptyMap /\ ret = EmptyMap

\* C7: a modified key owned by the ledger account gives the ledger account an
\* entry built like any other, whose storage holds the written balance slot;
\* the user whose balance slot it is gets an entry only if the user owns a
\* modified key (and is not in prestate).
C7_LedgerNotSpecial ==
    pc = "done" =>
        /\ (L2_ETH_TOKEN_ADDRESS \in Owners(modified) /\ L2_ETH_TOKEN_ADDRESS \notin DOMAIN prestate) =>
              /\ L2_ETH_TOKEN_ADDRESS \in DOMAIN ret
              /\ ret[L2_ETH_TOKEN_ADDRESS].balance = Some(ReadNumber(LedgerBalanceKey(L2_ETH_TOKEN_ADDRESS)))
              /\ ret[L2_ETH_TOKEN_ADDRESS].code = Some(ReadNumber(get_code_key(L2_ETH_TOKEN_ADDRESS)))
              /\ ret[L2_ETH_TOKEN_ADDRESS].nonce = Some(ReadNumber(get_nonce_key(L2_ETH_TOKEN_ADDRESS)))
              /\ \A a \in Address :
                    LedgerBalanceKey(a) \in DOMAIN modified =>
                        /\ LedgerBalanceKey(a).key \in DOMAIN Unwrap(ret[L2_ETH_TOKEN_ADDRESS].storage)
                        /\ Unwrap(ret[L2_ETH_TOKEN_ADDRESS].storage)[LedgerBalanceKey(a).key]
                              = modified[LedgerBalanceKey(a)]
        /\ \A a \in Users :
              LedgerBalanceKey(a) \in DOMAIN modified =>
                  (a \in DOMAIN ret <=> (KeysOf(modified, a) # {} /\ a \notin DOMAIN prestate))

C7_Witness ==
    /\ pc = "done"
    /\ L2_ETH_TOKEN_ADDRESS \in DOMAIN ret
    /\ \E a \in Users :
          /\ LedgerBalanceKey(a) \in DOMAIN modified
          /\ a \notin DOMAIN prestate
          /\ a \notin DOMAIN ret

\* C8: while the call runs, no step changes the modified-key set, the
\* committed values or what read_value returns for any key, so all three are
\* at the return what they were at the call.
C8_ReadOnly ==
    [][pc = "iter" =>
          /\ modified' = modified
          /\ base' = base
          /\ \A k \in StorageKeys : read_value(modified', base', k) = read_value(modified, base, k)]_vars

C8_Witness ==
    pc = "done" /\ built >= 2 /\ Cardinality(DOMAIN ret) = 1

\* C9: the call borrows the handle exactly when it starts, holds the borrow
\* through every step (nobody else borrows or writes meanwhile), and has
\* dropped the borrow and its clone of the handle when it has returned, after
\* which the handle can be borrowed again.
C9_ExclusiveAccess ==
    [][/\ (pc' = "iter") <=> (borrow' = "extractor")
       /\ pc' = "done" => (borrow' = "unused" /\ strong' = 1)
       /\ borrow = "extractor" =>
             /\ modified' = modified
             /\ borrow' \in {"extractor", "unused"}
             /\ borrow' = "unused" => pc' = "done"
       /\ (borrow # "extractor" /\ borrow' = "extractor") =>
             (borrow = "unused" /\ calls' = calls + 1)]_vars

C9_Witness ==
    pc = "iter" /\ borrow = "extractor" /\ calls = 2 /\ writes >= 1 /\ keys # {}

\* C10: every returned Account has its four fields populated and a storage
\* map with at least one entry.
C10_FullyPopulated ==
    pc = "done" =>
        \A a \in DOMAIN ret :
            /\ IsSome(ret[a].balance)
            /\ IsSome(ret[a].code)
            /\ IsSome(ret[a].nonce)
            /\ IsSome(ret[a].storage)
            /\ Unwrap(ret[a].storage) # EmptyMap

C10_Witness ==
    pc = "done" /\ Cardinality(DOMAIN ret) >= 2

\* C4: the holder is populated at most once: the first attempt succeeds, every
\* later attempt is rejected, the holder keeps the pair of the first attempt,
\* a read before the first attempt gets None and every later read gets the
\* pair of the first attempt.
C4_WriteOnce ==
    /\ \A i \in 1..Len(set_log) : set_log[i].res = (IF i = 1 THEN "Ok" ELSE "Err")
    /\ result = (IF set_log = <<>> THEN None ELSE Some(set_log[1].value))
    /\ \A r \in Readers : \A j \in 1..Len(observed[r]) :
          observed[r][j].val = (IF observed[r][j].at = 0 THEN None ELSE Some(set_log[1].value))

C4_Witness ==
    /\ Len(set_log) >= 2
    /\ set_log[2].value # set_log[1].value
    /\ \E r \in Readers : \E j \in 1..Len(observed[r]) : observed[r][j].at = 0
    /\ \E r \in Readers : \E j \in 1..Len(observed[r]) : observed[r][j].at >= 2

FieldNames == <<"balance", "code", "nonce", "storage">>

FieldOf(a, name) ==
    CASE name = "balance" -> a.balance
      [] name = "code" -> a.code
      [] name = "nonce" -> a.nonce
      [] name = "storage" -> a.storage

IsFieldName(t) == t \in {"balance", "code", "nonce", "storage"}

IsPopulated(name) == IsSome(FieldOf(r_account, name))

\* C6: a finished rendering holds the opening line, one line for each
\* populated field in the order balance, code, nonce, storage, one line per
\* storage slot between the storage line and its closing line, the closing
\* line, and nothing for an absent field.
C6_RenderPopulatedFields ==
    r_pc = "done" =>
        LET tags == [i \in 1..Len(r_out) |-> r_out[i].tag]
            slots == IF IsSome(r_account.storage) THEN DOMAIN Unwrap(r_account.storage) ELSE {}
            entryAt == {i \in 1..Len(r_out) : r_out[i].tag = "entry"}
            extra == IF IsSome(r_account.storage) THEN Cardinality(slots) + 1 ELSE 0
        IN /\ SelectSeq(tags, IsFieldName) = SelectSeq(FieldNames, IsPopulated)
           /\ Len(r_out) = 2 + Len(SelectSeq(FieldNames, IsPopulated)) + extra
           /\ tags[1] = "{" /\ tags[Len(tags)] = "}"
           /\ Cardinality(entryAt) = Cardinality(slots)
           /\ {r_out[i].key : i \in entryAt} = {DisplayH256(s) : s \in slots}
           /\ \A i \in entryAt :
                 /\ \E j \in 1..(i - 1) : tags[j] = "storage"
                 /\ \E j \in (i + 1)..Len(tags) : tags[j] = "storage_end"

C6_Witness ==
    /\ r_pc = "done"
    /\ r_account.balance = None
    /\ IsSome(r_account.code)
    /\ r_account.nonce = None
    /\ IsSome(r_account.storage)
    /\ Cardinality(DOMAIN Unwrap(r_account.storage)) = 2
    /\ Len(r_out) = 7

====
